---- MODULE Spec2Model ----
(***************************************************************************)
(* WB Price Guardian (src/bot.py): a Telegram bot that tracks Wildberries  *)
(* prices.  The model covers the SQLite tables (products, price_history,   *)
(* settings), the process-wide CHECK_INTERVAL, the chat handlers that      *)
(* change them, and the background coroutine price_check_task.             *)
(*                                                                         *)
(* Scheduling: everything runs on one asyncio event loop.  A coroutine     *)
(* keeps the loop until it awaits, so a handler can run only while         *)
(* price_check_task is suspended in "await bot.send_message" (line 314) or *)
(* in "await asyncio.sleep" (line 331).  Every handler does all of its     *)
(* database work before its first await that follows it, so each handler   *)
(* is one step.                                                            *)
(*                                                                         *)
(* The aiogram FSM state that routes a text message to process_article is  *)
(* left out: the handler may run for any user whenever a handler can run.  *)
(*                                                                         *)
(* Prices: the API reports salePriceU in kopecks; the code stores          *)
(* salePriceU / 100 as a Python float.  A float is modelled by its exact   *)
(* binary64 value, written as a fixed-point bit string of IB integer bits  *)
(* and FB fraction bits (most significant bit first).                      *)
(***************************************************************************)
EXTENDS Integers, Sequences, FiniteSets, TLC

\* ------------------------------------------------------------------ bounds
MaxId == 2             \* rows ever inserted into products (AUTOINCREMENT ids)
MaxPasses == 2         \* monitoring passes started
MaxPriceU == 12        \* kopeck amounts 0..MaxPriceU fed to the change test
IB == 8                \* integer bits of the fixed-point frame
FB == 62               \* fraction bits of the fixed-point frame

\* ------------------------------------------------------ program constants
MANT == 53             \* significand bits of a Python float (binary64)
Hundred == 100         \* kopecks per rouble, "price / 100"
EpsilonNum == 1        \* the literal 0.01 is the float nearest to 1/100
DefaultInterval == 1800

W == IB + FB
Users == {1, 2}
Intervals == {900, 1800}

Abs(i) == IF i < 0 THEN -i ELSE i
SetMin(S) == CHOOSE k \in S : \A j \in S : k <= j
SetMax(S) == CHOOSE k \in S : \A j \in S : k >= j
RECURSIVE Pow2(_)
Pow2(n) == IF n = 0 THEN 1 ELSE 2 * Pow2(n - 1)

\* ------------------------------------------------- binary64 float arithmetic
RECURSIVE Zeros(_)
Zeros(n) == IF n <= 0 THEN <<>> ELSE <<0>> \o Zeros(n - 1)

RECURSIVE IntBits(_, _)
IntBits(q, n) == IF n = 0 THEN <<>> ELSE IntBits(q \div 2, n - 1) \o <<q % 2>>

RECURSIVE FracBits(_, _, _)
FracBits(r, d, n) ==
    IF n = 0 THEN <<>> ELSE <<(2 * r) \div d>> \o FracBits((2 * r) % d, d, n - 1)

RECURSIVE FracRem(_, _, _)
FracRem(r, d, n) == IF n = 0 THEN r ELSE FracRem((2 * r) % d, d, n - 1)

\* The binary expansion of the rational n/d, cut to the frame; sticky tells
\* whether non-zero bits were cut off.
Expansion(n, d) ==
    [bits |-> IntBits(n \div d, IB) \o FracBits(n % d, d, FB),
     sticky |-> FracRem(n % d, d, FB) # 0]

AddUlp(b, p) ==
    LET z == SetMax({k \in 1..p : b[k] = 0})
    IN  SubSeq(b, 1, z - 1) \o <<1>> \o Zeros(p - z) \o SubSeq(b, p + 1, W)

\* IEEE 754 round-to-nearest, ties to even, to MANT significant bits.
RoundNearestEven(b, sticky) ==
    LET ones == {k \in 1..W : b[k] = 1}
    IN  IF ones = {} THEN b
        ELSE LET last == SetMin(ones) + MANT - 1
             IN  IF last >= W THEN b
                 ELSE LET rest == sticky \/ \E k \in (last + 2)..W : b[k] = 1
                          trunc == SubSeq(b, 1, last) \o Zeros(W - last)
                      IN  IF b[last + 1] = 1 /\ (rest \/ b[last] = 1)
                          THEN AddUlp(trunc, last) ELSE trunc

Less(x, y) == \E k \in 1..W : x[k] < y[k] /\ \A j \in 1..(k - 1) : x[j] = y[j]

RECURSIVE SubFrom(_, _, _, _)
SubFrom(x, y, k, borrow) ==
    IF k = 0 THEN <<>>
    ELSE IF x[k] - y[k] - borrow < 0
         THEN SubFrom(x, y, k - 1, 1) \o <<(x[k] - y[k] - borrow + 2) % 2>>
         ELSE SubFrom(x, y, k - 1, 0) \o <<x[k] - y[k] - borrow>>

\* Float true division of two ints, n / d (correctly rounded).
FloatDiv(n, d) == LET e == Expansion(n, d) IN RoundNearestEven(e.bits, e.sticky)

\* abs(x - y) on floats: the exact difference, rounded.
FloatAbsDiff(x, y) ==
    IF Less(x, y) THEN RoundNearestEven(SubFrom(y, x, W, 0), FALSE)
    ELSE RoundNearestEven(SubFrom(x, y, W, 0), FALSE)

\* x < n/d, x = n/d for a float x and the rational n/d.
BelowRational(x, n, d) ==
    LET e == Expansion(n, d) IN Less(x, e.bits) \/ (x = e.bits /\ e.sticky)
EqualsRational(x, n, d) ==
    LET e == Expansion(n, d) IN x = e.bits /\ ~e.sticky

\* format(x, ".2f") for a float x >= 0, as a number of hundredths: the
\* decimal nearest to the exact value of x, ties to the even digit.  The
\* seven leading fraction bits place the result within two hundredths.
Format2f(x) ==
    LET ip == (CHOOSE q \in 0..(Pow2(IB) - 1) : IntBits(q, IB) = SubSeq(x, 1, IB))
        f7 == (CHOOSE q \in 0..127 : IntBits(q, 7) = SubSeq(x, IB + 1, IB + 7))
        est == ip * Hundred + (f7 * Hundred) \div 128
        RoundsTo(c) ==
            /\ \/ BelowRational(x, 2 * c + 1, 2 * Hundred)
               \/ (EqualsRational(x, 2 * c + 1, 2 * Hundred) /\ c % 2 = 0)
            /\ \/ c = 0
               \/ ~BelowRational(x, 2 * c - 1, 2 * Hundred)
                    /\ ~(EqualsRational(x, 2 * c - 1, 2 * Hundred) /\ c % 2 = 1)
    IN  CHOOSE c \in {k \in (est - 1)..(est + 2) : k >= 0} : RoundsTo(c)

\* ------------------------------------------------------ the catalogue lookup
None == <<>>           \* Python None in a slot that otherwise holds a float
Missing == -1          \* the product entry has no 'salePriceU' key
PriceUs == {9000, 10000}           \* salePriceU values the API answers with
AllPriceUs == (0..MaxPriceU) \cup PriceUs \cup {10001, 10002}

\* What requests.get / raise_for_status / response.json produce.
Responses ==
    {[kind |-> "exception", salePriceU |-> Missing],
     [kind |-> "empty", salePriceU |-> Missing]}
    \cup {[kind |-> "product", salePriceU |-> u] : u \in {Missing} \cup PriceUs}

\* price / 100, tabulated once over the kopeck amounts in use.
Div100 == [u \in AllPriceUs |-> FloatDiv(u, Hundred)]
Floats == {Div100[u] : u \in AllPriceUs}

\* (name, price, success) without the name; success is True, False or None.
get_wb_product_info(resp) ==
    IF resp.kind = "exception" THEN [price |-> None, success |-> "False"]
    ELSE IF resp.kind = "empty" THEN [price |-> None, success |-> "None"]
    ELSE [price |-> IF resp.salePriceU = Missing THEN None
                    ELSE IF resp.salePriceU # 0 THEN Div100[resp.salePriceU]
                    ELSE Zeros(W),
          success |-> "True"]

Truthy(success) == success = "True"

\* ------------------------------------------------------------ change test
Epsilon == FloatDiv(EpsilonNum, Hundred)

\* abs(new_price - old_price) > 0.01, tabulated over the floats in use.
ExceedsEpsilon == [old \in Floats, new \in Floats |-> Less(Epsilon, FloatAbsDiff(new, old))]
price_changed(old_price, new_price) == ExceedsEpsilon[old_price, new_price]

\* f"{new_price - old_price:+.2f}" as a signed number of hundredths.
SignedHundredths ==
    [old \in Floats, new \in Floats |->
        IF Less(new, old) THEN 0 - Format2f(FloatAbsDiff(new, old))
        ELSE Format2f(FloatAbsDiff(new, old))]
difference_text_Unsigned(old_price, new_price) ==
    Abs(SignedHundredths[old_price, new_price])
difference_text(old_price, new_price) == SignedHundredths[old_price, new_price]

\* --------------------------------------------------------------- the tables
\* message.text of an add request: characters, digits or not.
Digits == {"0", "1", "2", "3", "4", "5", "6", "7", "8", "9"}
DigitValue == [c \in Digits |->
    CASE c = "0" -> 0 [] c = "1" -> 1 [] c = "2" -> 2 [] c = "3" -> 3 [] c = "4" -> 4
      [] c = "5" -> 5 [] c = "6" -> 6 [] c = "7" -> 7 [] c = "8" -> 8 [] c = "9" -> 9]
ArticleTexts == {<<"7">>, <<"0", "7">>, <<"x">>}

isdigit(text) == Len(text) > 0 /\ \A i \in 1..Len(text) : text[i] \in Digits

\* INTEGER column affinity: digit text is stored and compared as its number.
RECURSIVE IntegerAffinity(_)
IntegerAffinity(text) ==
    IF text = <<>> THEN 0
    ELSE 10 * IntegerAffinity(SubSeq(text, 1, Len(text) - 1)) + DigitValue[text[Len(text)]]

\* SELECT id FROM products WHERE user_id = ? AND article = ?
SelectByUserArticle(rows, user_id, article) ==
    {p \in rows : p.user_id = user_id /\ p.article = IntegerAffinity(article)}

\* UNIQUE(user_id, article): the INSERT raises IntegrityError on a duplicate.
UniqueViolation(rows, user_id, article) ==
    \E p \in rows : p.user_id = user_id /\ p.article = IntegerAffinity(article)

\* SELECT id, user_id, article, name, current_price FROM products (rowid order)
RECURSIVE SelectAll(_)
SelectAll(rows) ==
    IF rows = {} THEN <<>>
    ELSE LET first == CHOOSE p \in rows : \A q \in rows : p.id <= q.id
         IN  <<first>> \o SelectAll(rows \ {first})

UpdatePrice_AllRows(rows, id, price) ==
    {[p EXCEPT !.current_price = price] : p \in rows}
\* UPDATE products SET current_price = ? WHERE id = ?
UpdatePrice(rows, id, price) ==
    {IF p.id = id THEN [p EXCEPT !.current_price = price] ELSE p : p \in rows}

InsertHistory_Dropped(history, id, price) == history
\* INSERT INTO price_history (product_id, price, change_date)
InsertHistory(history, id, price) ==
    Append(history, [product_id |-> id, price |-> price])

\* DELETE FROM products WHERE id = ?
DeleteProduct(rows, id) == {p \in rows : p.id # id}

DeleteHistory_KeepsRows(history, id) == history
\* DELETE FROM price_history WHERE product_id = ?
DeleteHistory(history, id) == SelectSeq(history, LAMBDA r : r.product_id # id)

\* Rows of settings in rowid order (user_id INTEGER PRIMARY KEY is the rowid).
InsertByRowid(rows, row) ==
    SelectSeq(rows, LAMBDA r : r.user_id <= row.user_id) \o <<row>>
        \o SelectSeq(rows, LAMBDA r : r.user_id > row.user_id)

ReplaceInto_PlainInsert(rows, user_id, seconds) ==
    InsertByRowid(rows, [user_id |-> user_id, check_interval |-> seconds])
\* REPLACE INTO settings (user_id, check_interval): the row with the same
\* primary key is deleted, then the new row is inserted.
ReplaceInto(rows, user_id, seconds) ==
    InsertByRowid(SelectSeq(rows, LAMBDA r : r.user_id # user_id),
                  [user_id |-> user_id, check_interval |-> seconds])

\* ------------------------------------------------------------------- state
VARIABLES
    products,        \* table products: rows [id, user_id, article, current_price]
    seq,             \* sqlite_sequence of products: the largest id ever given
    price_history,   \* table price_history in insertion order
    settings,        \* table settings in rowid order
    CHECK_INTERVAL,  \* the process-wide interval
    pc,              \* where price_check_task stands
    snapshot,        \* its local list "products"
    idx,             \* position of the for loop in snapshot
    cur,             \* locals of the iteration suspended in send_message
    sleepFor,        \* argument of the asyncio.sleep in progress
    passes,          \* passes started
    looked,          \* this pass: outcome of every lookup, in order
    notified,        \* this pass: every send_message call that returned or raised
    dOld, dNew, dOut \* operands and verdict of the stand-alone change test

vars == <<products, seq, price_history, settings, CHECK_INTERVAL, pc,
          snapshot, idx, cur, sleepFor, passes, looked, notified, dOld, dNew, dOut>>

store == <<products, seq, price_history>>
task == <<pc, snapshot, idx, cur, sleepFor, passes, looked, notified>>
detector == <<dOld, dNew, dOut>>

NoCur == [id |-> 0]
NoVerdict == [done |-> FALSE, changed |-> FALSE, difference |-> 0]

Init ==
    /\ products = {}
    /\ seq = 0
    /\ price_history = <<>>
    /\ settings = <<>>
    /\ CHECK_INTERVAL = DefaultInterval
    /\ pc = "pass"
    /\ snapshot = <<>>
    /\ idx = 1
    /\ cur = NoCur
    /\ sleepFor = 0
    /\ passes = 0
    /\ looked = <<>>
    /\ notified = <<>>
    /\ dOld = 0 /\ dNew = 0 /\ dOut = NoVerdict

\* The event loop can run a handler: price_check_task is suspended in an
\* await, or it has ended.
Suspended == pc \in {"sending", "sleeping", "dead"}

\* ------------------------------------------------------------ chat handlers
process_article_AddsUnpriced(user_id, article, resp) ==
    LET info == get_wb_product_info(resp)
        product_id == seq + 1
    IN  /\ Suspended
        /\ IF ~isdigit(article)
           THEN UNCHANGED store
           ELSE IF \/ ~Truthy(info.success)
                      \/ SelectByUserArticle(products, user_id, article) # {}
                      \/ UniqueViolation(products, user_id, article)
                   THEN UNCHANGED store
                   ELSE /\ seq < MaxId
                        /\ products' = products \cup
                              {[id |-> product_id, user_id |-> user_id,
                                article |-> IntegerAffinity(article),
                                current_price |-> info.price]}
                        /\ seq' = product_id
                        /\ price_history' = InsertHistory(price_history, product_id, info.price)
        /\ UNCHANGED <<settings, CHECK_INTERVAL, task, detector>>

process_article_NoDuplicateCheck(user_id, article, resp) ==
    LET info == get_wb_product_info(resp)
        product_id == seq + 1
    IN  /\ Suspended
        /\ IF ~isdigit(article)
           THEN UNCHANGED store
           ELSE IF ~Truthy(info.success) \/ info.price = None
                   THEN UNCHANGED store
                   ELSE /\ seq < MaxId
                        /\ products' = products \cup
                              {[id |-> product_id, user_id |-> user_id,
                                article |-> IntegerAffinity(article),
                                current_price |-> info.price]}
                        /\ seq' = product_id
                        /\ price_history' = InsertHistory(price_history, product_id, info.price)
        /\ UNCHANGED <<settings, CHECK_INTERVAL, task, detector>>

\* process_article: validate the text, look the article up, refuse a
\* duplicate, insert the product and its first history row, commit.
process_article(user_id, article, resp) ==
    LET info == get_wb_product_info(resp)
        product_id == seq + 1
    IN  /\ Suspended
        /\ IF ~isdigit(article)
           THEN UNCHANGED store
           ELSE IF \/ ~Truthy(info.success)
                      \/ info.price = None
                      \/ SelectByUserArticle(products, user_id, article) # {}
                      \/ UniqueViolation(products, user_id, article)
                   THEN UNCHANGED store
                   ELSE /\ seq < MaxId
                        /\ products' = products \cup
                              {[id |-> product_id, user_id |-> user_id,
                                article |-> IntegerAffinity(article),
                                current_price |-> info.price]}
                        /\ seq' = product_id
                        /\ price_history' = InsertHistory(price_history, product_id, info.price)
        /\ UNCHANGED <<settings, CHECK_INTERVAL, task, detector>>

\* remove_product: the id comes from the button's callback data.
remove_product(product_id) ==
    /\ Suspended
    /\ products' = DeleteProduct(products, product_id)
    /\ price_history' = DeleteHistory(price_history, product_id)
    /\ UNCHANGED <<seq, settings, CHECK_INTERVAL, task, detector>>

\* apply_interval: set the global and REPLACE the user's settings row.
apply_interval(user_id, seconds) ==
    /\ Suspended
    /\ CHECK_INTERVAL' = seconds
    /\ settings' = ReplaceInto(settings, user_id, seconds)
    /\ UNCHANGED <<store, task, detector>>

\* ---------------------------------------------------------- price_check_task
\* Top of "while True": read all products into the local list.
StartPass ==
    /\ pc = "pass"
    /\ passes < MaxPasses
    /\ passes' = passes + 1
    /\ snapshot' = SelectAll(products)
    /\ idx' = 1
    /\ pc' = "loop"
    /\ UNCHANGED <<store, settings, CHECK_INTERVAL, cur, sleepFor,
                   looked, notified, detector>>

AfterFailedLookup_Break(i, n) == n + 1
\* "continue" after a failed lookup: on to the next product of the list.
AfterFailedLookup(i, n) == i + 1

CheckProduct_RemovesNotFound(resp) ==
    LET product == snapshot[idx]
        info == get_wb_product_info(resp)
        Skip(outcome, next) ==
            /\ looked' = Append(looked, [id |-> product.id, outcome |-> outcome,
                                         price |-> info.price])
            /\ idx' = next
            /\ UNCHANGED <<pc, cur>>
    IN  /\ pc = "loop"
        /\ idx <= Len(snapshot)
        /\ IF ~Truthy(info.success)
           THEN Skip("error", AfterFailedLookup(idx, Len(snapshot))) /\ UNCHANGED store
           ELSE IF info.price = None
           THEN /\ Skip("warning", AfterFailedLookup(idx, Len(snapshot)))
                /\ products' = DeleteProduct(products, product.id)
                /\ price_history' = DeleteHistory(price_history, product.id)
                /\ UNCHANGED seq
           ELSE IF price_changed(product.current_price, info.price)
           THEN /\ looked' = Append(looked, [id |-> product.id, outcome |-> "changed",
                                             price |-> info.price])
                /\ cur' = [id |-> product.id, user_id |-> product.user_id,
                           old_price |-> product.current_price,
                           new_price |-> info.price]
                /\ pc' = "sending"
                /\ UNCHANGED <<idx, store>>
           ELSE Skip("same", idx + 1) /\ UNCHANGED store
        /\ UNCHANGED <<settings, CHECK_INTERVAL, snapshot, sleepFor,
                       passes, notified, detector>>

\* One iteration up to its "continue", its end, or the await of send_message.
CheckProduct(resp) ==
    LET product == snapshot[idx]
        info == get_wb_product_info(resp)
        Skip(outcome, next) ==
            /\ looked' = Append(looked, [id |-> product.id, outcome |-> outcome,
                                         price |-> info.price])
            /\ idx' = next
            /\ UNCHANGED <<pc, cur>>
    IN  /\ pc = "loop"
        /\ idx <= Len(snapshot)
        /\ IF ~Truthy(info.success)
           THEN Skip("error", AfterFailedLookup(idx, Len(snapshot)))
           ELSE IF info.price = None
           THEN Skip("warning", AfterFailedLookup(idx, Len(snapshot)))
           ELSE IF price_changed(product.current_price, info.price)
           THEN /\ looked' = Append(looked, [id |-> product.id, outcome |-> "changed",
                                             price |-> info.price])
                /\ cur' = [id |-> product.id, user_id |-> product.user_id,
                           old_price |-> product.current_price,
                           new_price |-> info.price]
                /\ pc' = "sending"
                /\ UNCHANGED idx
           ELSE Skip("same", idx + 1)
        /\ UNCHANGED <<store, settings, CHECK_INTERVAL, snapshot, sleepFor,
                       passes, notified, detector>>

FinishProduct_RefreshesList(delivered) ==
    /\ pc = "sending"
    /\ notified' = Append(notified,
           [user_id |-> cur.user_id, product_id |-> cur.id,
            old_price |-> cur.old_price, new_price |-> cur.new_price,
            difference |-> difference_text(cur.old_price, cur.new_price),
            delivered |-> delivered])
    /\ products' = UpdatePrice(products, cur.id, cur.new_price)
    /\ price_history' = InsertHistory(price_history, cur.id, cur.new_price)
    /\ snapshot' = SelectAll(products')
    /\ idx' = idx + 1
    /\ cur' = NoCur
    /\ pc' = "loop"
    /\ UNCHANGED <<seq, settings, CHECK_INTERVAL, sleepFor,
                   passes, looked, detector>>
FinishProduct_SkipsUpdateOnFailure(delivered) ==
    /\ pc = "sending"
    /\ notified' = Append(notified,
           [user_id |-> cur.user_id, product_id |-> cur.id,
            old_price |-> cur.old_price, new_price |-> cur.new_price,
            difference |-> difference_text(cur.old_price, cur.new_price),
            delivered |-> delivered])
    /\ IF delivered
       THEN /\ products' = UpdatePrice(products, cur.id, cur.new_price)
            /\ price_history' = InsertHistory(price_history, cur.id, cur.new_price)
       ELSE UNCHANGED <<products, price_history>>
    /\ idx' = idx + 1
    /\ cur' = NoCur
    /\ pc' = "loop"
    /\ UNCHANGED <<seq, settings, CHECK_INTERVAL, snapshot, sleepFor,
                   passes, looked, detector>>

\* send_message returns (delivered) or raises (caught and logged); then the
\* UPDATE, the INSERT into price_history and the commit.
FinishProduct(delivered) ==
    /\ pc = "sending"
    /\ notified' = Append(notified,
           [user_id |-> cur.user_id, product_id |-> cur.id,
            old_price |-> cur.old_price, new_price |-> cur.new_price,
            difference |-> difference_text(cur.old_price, cur.new_price),
            delivered |-> delivered])
    /\ products' = UpdatePrice(products, cur.id, cur.new_price)
    /\ price_history' = InsertHistory(price_history, cur.id, cur.new_price)
    /\ idx' = idx + 1
    /\ cur' = NoCur
    /\ pc' = "loop"
    /\ UNCHANGED <<seq, settings, CHECK_INTERVAL, snapshot, sleepFor,
                   passes, looked, detector>>

Sleep_DefaultInterval ==
    /\ pc = "loop"
    /\ idx > Len(snapshot)
    /\ sleepFor' = DefaultInterval
    /\ pc' = "sleeping"
    /\ snapshot' = <<>>
    /\ idx' = 1
    /\ looked' = <<>>
    /\ notified' = <<>>
    /\ UNCHANGED <<store, settings, CHECK_INTERVAL, cur, passes, detector>>
Sleep_OffByOne ==
    /\ pc = "loop"
    /\ idx > Len(snapshot) + 1
    /\ sleepFor' = CHECK_INTERVAL
    /\ pc' = "sleeping"
    /\ snapshot' = <<>>
    /\ idx' = 1
    /\ looked' = <<>>
    /\ notified' = <<>>
    /\ UNCHANGED <<store, settings, CHECK_INTERVAL, cur, passes, detector>>
\* After the last product: asyncio.sleep(CHECK_INTERVAL).
Sleep ==
    /\ pc = "loop"
    /\ idx > Len(snapshot)
    /\ sleepFor' = CHECK_INTERVAL
    /\ pc' = "sleeping"
    /\ snapshot' = <<>>
    /\ idx' = 1
    /\ looked' = <<>>
    /\ notified' = <<>>
    /\ UNCHANGED <<store, settings, CHECK_INTERVAL, cur, passes, detector>>

WakeUp_DuringPass ==
    /\ pc \in {"sleeping", "sending"}
    /\ pc' = "pass"
    /\ sleepFor' = 0
    /\ UNCHANGED <<store, settings, CHECK_INTERVAL, snapshot, idx, cur,
                   passes, looked, notified, detector>>

\* The sleep is over.
WakeUp ==
    /\ pc = "sleeping"
    /\ passes < MaxPasses
    /\ pc' = "pass"
    /\ sleepFor' = 0
    /\ UNCHANGED <<store, settings, CHECK_INTERVAL, snapshot, idx, cur,
                   passes, looked, notified, detector>>

Next ==
    \/ \E u \in Users, a \in ArticleTexts, r \in Responses : process_article(u, a, r)
    \/ \E id \in 1..MaxId : remove_product(id)
    \/ \E u \in Users, s \in Intervals : apply_interval(u, s)
    \/ StartPass
    \/ \E r \in Responses : CheckProduct(r)
    \/ \E d \in BOOLEAN : FinishProduct(d)
    \/ Sleep
    \/ WakeUp

Spec == Init /\ [][Next]_vars

\* ------------------------------------------------ the task keeps running
\* The event loop resumes price_check_task whenever it can go on: the SELECT
\* and the loop body run at once, requests.get returns or times out after
\* 10 s, send_message returns or raises, asyncio.sleep ends.
TaskStep ==
    \/ StartPass
    \/ \E r \in Responses : CheckProduct(r)
    \/ \E d \in BOOLEAN : FinishProduct(d)
    \/ Sleep
    \/ WakeUp

\* At most one of the five steps is enabled at a time (pc decides which),
\* so weak fairness of their disjunction is weak fairness of each.
Fairness == WF_vars(TaskStep)

SpecLive == Init /\ [][Next]_vars /\ Fairness
\* ------------------------------------------- a store write that fails
\* cursor.execute of the UPDATE raises (sqlite3.Error) once send_message has
\* returned or raised: nothing is written, the exception leaves "while True"
\* and the task created by on_startup ends; start_polling goes on.
StoreWriteFails(delivered) ==
    /\ pc = "sending"
    /\ notified' = Append(notified,
           [user_id |-> cur.user_id, product_id |-> cur.id,
            old_price |-> cur.old_price, new_price |-> cur.new_price,
            difference |-> difference_text(cur.old_price, cur.new_price),
            delivered |-> delivered])
    /\ cur' = NoCur
    /\ pc' = "dead"
    /\ UNCHANGED <<store, settings, CHECK_INTERVAL, snapshot, idx, sleepFor,
                   passes, looked, detector>>

NextFault ==
    \/ Next
    \/ \E d \in BOOLEAN : StoreWriteFails(d)

SpecFault == Init /\ [][NextFault]_vars
\* ------------------------------------------- the change test on its own
\* Lines 302-310 applied to one pair of prices: dOld and dNew are the
\* salePriceU amounts of the stored and of the fresh price.
Detect ==
    /\ ~dOut.done
    /\ dOut' = [done |-> TRUE,
                changed |-> price_changed(Div100[dOld], Div100[dNew]),
                difference |-> difference_text(Div100[dOld], Div100[dNew])]
    /\ UNCHANGED <<store, settings, CHECK_INTERVAL, task, dOld, dNew>>

InitDetect ==
    /\ products = {} /\ seq = 0 /\ price_history = <<>> /\ settings = <<>>
    /\ CHECK_INTERVAL = DefaultInterval
    /\ pc = "pass" /\ snapshot = <<>> /\ idx = 1 /\ cur = NoCur /\ sleepFor = 0
    /\ passes = 0 /\ looked = <<>> /\ notified = <<>>
    /\ dOld \in AllPriceUs /\ dNew \in AllPriceUs /\ dOut = NoVerdict

NextDetect == Detect

SpecDetect == InitDetect /\ [][NextDetect]_vars

\* ----------------------------------------------------------------- queries
Ids(rows) == {p.id : p \in rows}
Tracked(id) == id \in Ids(products)
HistoryOf(history, id) == SelectSeq(history, LAMBDA r : r.product_id = id)
SettingsOf(rows, user_id) == SelectSeq(rows, LAMBDA r : r.user_id = user_id)
NotifiedOf(log, id) == SelectSeq(log, LAMBDA n : n.product_id = id)

\* SELECT article, name, current_price FROM products WHERE user_id = ?
listItems(user_id) == SelectAll({p \in products : p.user_id = user_id})

\* The kopeck amount a stored float stands for.
KopecksOf(x) == CHOOSE u \in AllPriceUs : Div100[u] = x

\* The for loop has gone through the whole list and the sleep has not begun.
AtPassEnd == pc = "loop" /\ idx > Len(snapshot)

\* ------------------------------------------------------------------ claims

\* C1: every row of price_history references a product that still exists,
\* whatever the interleaving of handlers with a pass.
C1_HistoryReferencesTrackedItem ==
    \A i \in 1..Len(price_history) : Tracked(price_history[i].product_id)

\* C2: no two products rows share (user_id, article); a user's list never
\* shows the same article twice.
C2_UniqueOwnerArticle ==
    /\ \A p, q \in products :
          (p.user_id = q.user_id /\ p.article = q.article) => p = q
    /\ \A u \in Users : \A i, j \in 1..Len(listItems(u)) :
          listItems(u)[i].article = listItems(u)[j].article => i = j

\* Both users track the same article and every id has been given out.
C2_Witness ==
    /\ Cardinality(products) = 2
    /\ \A p, q \in products : p.article = q.article
    /\ seq = MaxId

\* C3: whenever the notification for a change has been attempted, the store
\* already holds the new price of that product.
C3_StoreUpdatedBeforeNotify ==
    pc = "sending" =>
        \A p \in products : p.id = cur.id => p.current_price = cur.new_price

\* C4: a failed delivery is dropped, not retried: that iteration still
\* updates current_price and appends the history row, the loop goes on to
\* the next product, and the pass ends only after the whole list.
C4_FailedDeliveryDropped ==
    [][/\ (pc = "sending" /\ pc' # "sending" /\ ~notified'[Len(notified')].delivered) =>
            /\ Len(NotifiedOf(notified', cur.id)) = 1
            /\ \A p \in products : p.id = cur.id =>
                  \E q \in products' : q.id = p.id /\ q.current_price = cur.new_price
            /\ price_history' =
                  Append(price_history, [product_id |-> cur.id, price |-> cur.new_price])
            /\ pc' = "loop" /\ idx' = idx + 1
       /\ AtPassEnd' => Len(looked') = Len(snapshot')
      ]_vars

\* A pass over two products has ended; delivery failed for the first one,
\* whose row holds the new price, and the second one was looked up after it.
C4_Witness ==
    /\ AtPassEnd /\ Len(snapshot) = 2 /\ Len(looked) = 2
    /\ Len(notified) >= 1 /\ ~notified[1].delivered
    /\ notified[1].product_id = snapshot[1].id
    /\ \E p \in products : p.id = notified[1].product_id
                           /\ p.current_price = notified[1].new_price

\* C5: a failed lookup for one product of the list does not keep the others
\* from being looked up, and every significant change found among them is
\* notified to its owner and stored.
C5_FailedLookupIsolated ==
    AtPassEnd =>
        /\ Len(looked) = Len(snapshot)
        /\ \A k \in 1..Len(looked) : looked[k].outcome = "error" =>
              \A j \in 1..Len(looked) : j # k =>
                 /\ looked[j].id = snapshot[j].id
                 /\ (/\ looked[j].outcome \notin {"error", "warning"}
                     /\ Abs(KopecksOf(looked[j].price)
                            - KopecksOf(snapshot[j].current_price)) > EpsilonNum) =>
                       /\ \E n \in 1..Len(notified) :
                             /\ notified[n].product_id = looked[j].id
                             /\ notified[n].user_id = snapshot[j].user_id
                             /\ notified[n].new_price = looked[j].price
                       /\ \A p \in products : p.id = looked[j].id =>
                             /\ p.current_price = looked[j].price
                             /\ \E h \in 1..Len(price_history) :
                                   price_history[h] = [product_id |-> p.id,
                                                       price |-> looked[j].price]

\* A pass over two products: the first lookup failed, the second found a
\* changed price, which was notified and stored.
C5_Witness ==
    /\ AtPassEnd /\ Len(looked) = 2
    /\ looked[1].outcome = "error" /\ looked[2].outcome = "changed"
    /\ Len(notified) = 1
    /\ \E p \in products : p.id = looked[2].id /\ p.current_price = looked[2].price

\* C6: a removal deletes the products row and every history row of that id
\* in the same step; history rows of an id vanish only together with it.
C6_RemoveIsAtomic ==
    [][\A id \in 1..MaxId :
          /\ (Tracked(id) /\ id \notin Ids(products')) =>
                Len(HistoryOf(price_history', id)) = 0
          /\ Len(HistoryOf(price_history', id)) < Len(HistoryOf(price_history, id)) =>
                id \notin Ids(products')
      ]_vars

\* Products were added and a pass has stored a change; all are removed
\* again and no history row is left.
C6_Witness ==
    /\ seq >= 1 /\ passes = MaxPasses /\ pc = "sleeping"
    /\ products = {} /\ price_history = <<>>

\* C7: every product has a history row; the step that adds a product also
\* appends its first history row, at the price it was added with.
C7_SeedObservation ==
    [][/\ \A p \in products' : Len(HistoryOf(price_history', p.id)) >= 1
       /\ \A p \in products' : ~Tracked(p.id) =>
             price_history' = Append(price_history,
                                     [product_id |-> p.id, price |-> p.current_price])
      ]_vars

\* A product that has only its first history row, at its current price.
C7_Witness ==
    \E p \in products :
        HistoryOf(price_history, p.id) = <<[product_id |-> p.id, price |-> p.current_price]>>

\* C8: a significant change found for a product that is still tracked ends
\* the iteration with current_price at the new price, one history row
\* appended at the new price, and one notification to the owner carrying
\* new price minus old price.
C8_ChangePersistedAndNotified ==
    [][/\ (pc = "loop" /\ idx <= Len(snapshot) /\ looked'[Len(looked')].price # None
           /\ Tracked(snapshot[idx].id)
           /\ \E p \in products : p.id = snapshot[idx].id
                  /\ Abs(KopecksOf(looked'[Len(looked')].price)
                         - KopecksOf(p.current_price)) > EpsilonNum)
          => (pc' = "sending" /\ cur'.id = snapshot[idx].id
              /\ cur'.new_price = looked'[Len(looked')].price
              /\ \E p \in products : p.id = cur'.id /\ p.current_price = cur'.old_price
                                     /\ p.user_id = cur'.user_id)
       /\ (pc = "sending" /\ pc' # "sending") =>
            /\ \A p \in products : p.id = cur.id =>
                  \E q \in products' : q.id = p.id /\ q.current_price = cur.new_price
            /\ price_history' =
                  Append(price_history, [product_id |-> cur.id, price |-> cur.new_price])
            /\ Len(notified') = Len(notified) + 1
            /\ Len(NotifiedOf(notified', cur.id)) = 1
            /\ LET n == notified'[Len(notified')]
               IN  /\ n.user_id = cur.user_id /\ n.product_id = cur.id
                   /\ n.difference = KopecksOf(cur.new_price) - KopecksOf(cur.old_price)
      ]_vars

\* A price drop was notified and the tracked product holds the new price
\* and a second history row.
C8_Witness ==
    /\ pc = "loop" /\ Len(notified) >= 1
    /\ notified[Len(notified)].difference < 0
    /\ \E p \in products :
          /\ p.id = notified[Len(notified)].product_id
          /\ p.current_price = notified[Len(notified)].new_price
          /\ Len(HistoryOf(price_history, p.id)) = 2

\* C9: the change test answers "changed" exactly when the two prices differ
\* by more than 0.01, and the difference it reports is new minus old.
C9_ThresholdIsOneKopeck ==
    dOut.done =>
        /\ dOut.changed <=> (Abs(dNew - dOld) > EpsilonNum)
        /\ dOut.difference = dNew - dOld

\* C10: settings holds at most one row per user; an apply_interval leaves
\* exactly one row for its user with the value given, leaves the other rows
\* alone, and applying it a second time changes nothing.
C10_SetIntervalIdempotent ==
    [][/\ \A u \in Users : Len(SettingsOf(settings', u)) <= 1
       /\ (settings' # settings \/ CHECK_INTERVAL' # CHECK_INTERVAL) =>
             \E u \in Users, s \in Intervals :
                /\ SettingsOf(settings', u) = <<[user_id |-> u, check_interval |-> s]>>
                /\ CHECK_INTERVAL' = s
                /\ \A v \in Users \ {u} : SettingsOf(settings', v) = SettingsOf(settings, v)
                /\ ReplaceInto(settings', u, s) = settings'
      ]_vars

\* Both users have a row; the values differ.
C10_Witness ==
    /\ Len(settings) = 2
    /\ settings[1].user_id # settings[2].user_id
    /\ settings[1].check_interval # settings[2].check_interval

\* The answer carries a product entry with a salePriceU.
Priced(resp) == resp.kind = "product" /\ resp.salePriceU # Missing

\* The user already tracks the article the text stands for.
AlreadyTracked(user_id, article) ==
    \E p \in products : p.user_id = user_id /\ p.article = IntegerAffinity(article)

\* C11: an add request creates a product only when the lookup found a priced
\* product and the user does not track the article yet; then exactly one row
\* and its first history row are added. After a failed lookup, a product
\* that was not found or an article already tracked, products and
\* price_history are exactly as they were.
C11_AddOnlyWhenFoundAndNew ==
    [][store' # store =>
          \A u \in Users, a \in ArticleTexts, r \in Responses :
             process_article(u, a, r) =>
             IF isdigit(a) /\ Priced(r) /\ ~AlreadyTracked(u, a)
             THEN /\ \E p \in products' \ products :
                        /\ products' = products \cup {p}
                        /\ p.user_id = u /\ p.article = IntegerAffinity(a)
                        /\ p.id \notin Ids(products)
                        /\ price_history' = Append(price_history,
                              [product_id |-> p.id, price |-> p.current_price])
             ELSE products' = products /\ price_history' = price_history
      ]_vars

\* Both kinds of request have been made: user 1 tracks the article, and the
\* same article requested by user 1 again is refused as already tracked.
C11_Witness ==
    /\ \E p \in products : p.user_id = 1 /\ p.id = seq
    /\ AlreadyTracked(1, <<"0", "7">>)
    /\ Len(HistoryOf(price_history, seq)) = 1
    /\ Suspended

\* C12: when the lookup of a pass fails or finds no price, that product is
\* left as it was: its row, its current_price and its history are unchanged,
\* no notification is sent, the loop moves on, and the list of the next pass
\* holds every row that is still in products.
C12_FailedLookupLeavesItem ==
    [][/\ \A r \in Responses :
             (~Priced(r) /\ CheckProduct(r)) =>
                /\ store' = store
                /\ notified' = notified
                /\ pc' = "loop" /\ idx' = idx + 1 /\ cur' = cur
                /\ looked'[Len(looked')].id = snapshot[idx].id
                /\ looked'[Len(looked')].outcome \in {"error", "warning"}
       /\ (pc = "pass" /\ pc' = "loop") =>
             \A p \in products : \E i \in 1..Len(snapshot') : snapshot'[i] = p
      ]_vars

\* A pass over two products has ended: the first lookup failed, the second
\* found no price, nothing was sent and both rows are as the pass read them.
C12_Witness ==
    /\ AtPassEnd /\ Len(snapshot) = 2 /\ Len(looked) = 2
    /\ looked[1].outcome = "error" /\ looked[2].outcome = "warning"
    /\ notified = <<>>
    /\ \A i \in 1..2 : snapshot[i] \in products

\* The task has ended with an exception: no further pass will run.
SchedulerStopped == pc = "dead"

\* C13: the process never serves a chat command while the monitoring loop
\* has stopped: once a failing store write has ended price_check_task, no
\* add, remove or interval request is carried out any more.
C13_NoServiceWithoutScheduler ==
    [][SchedulerStopped => UNCHANGED <<store, settings, CHECK_INTERVAL>>]_vars

\* C14: there is one pass at a time. A pass begins only from the top of
\* "while True" with nothing of an earlier pass in progress, the sleep begins
\* only after the whole list has been gone through, the top of the loop is
\* reached only from the sleep, no product is twice in the list of a pass,
\* and the one iteration suspended in send_message is that of the list
\* position.
C14_OnePassAtATime ==
    [][/\ passes' # passes =>
             /\ pc = "pass" /\ pc' = "loop" /\ passes' = passes + 1
             /\ snapshot = <<>> /\ looked = <<>> /\ notified = <<>> /\ cur = NoCur
       /\ (pc' = "pass" /\ pc # "pass") => pc = "sleeping"
       /\ (pc' = "sleeping" /\ pc # "sleeping") =>
             AtPassEnd /\ Len(looked) = Len(snapshot)
       /\ \A i, j \in 1..Len(snapshot') :
             snapshot'[i].id = snapshot'[j].id => i = j
       /\ pc' = "sending" =>
             /\ idx' <= Len(snapshot') /\ cur'.id = snapshot'[idx'].id
             /\ Len(looked') = idx'
      ]_vars

\* The second pass is suspended in send_message for the second product of
\* its list.
C14_Witness ==
    /\ passes = 2 /\ pc = "sending"
    /\ Len(snapshot) = 2 /\ idx = 2 /\ cur.id = snapshot[2].id

\* Every product of the list has had its one lookup, in list order.
EachLookedUpOnce ==
    /\ Len(looked) = Len(snapshot)
    /\ \A i \in 1..Len(snapshot) : looked[i].id = snapshot[i].id

\* C15: every pass terminates. From anywhere in a pass the task reaches the
\* end of the list with one lookup done for each product of the list,
\* whatever the lookups and deliveries gave; from there it reaches the
\* sleep; and from the sleep it starts the next pass (as long as the model
\* lets passes be counted).
C15_PassTerminates ==
    /\ (pc \in {"loop", "sending"}) ~> (AtPassEnd /\ EachLookedUpOnce)
    /\ AtPassEnd ~> (pc = "sleeping")
    /\ (pc = "sleeping" /\ passes < MaxPasses) ~> (pc = "loop")

\* A pass over two products has reached the end of its list: the first
\* changed and its delivery failed, the lookup of the second failed.
C15_Witness ==
    /\ AtPassEnd /\ EachLookedUpOnce /\ Len(snapshot) = 2
    /\ looked[1].outcome = "changed" /\ looked[2].outcome = "error"
    /\ Len(notified) = 1 /\ ~notified[1].delivered

\* C16: an interval set while the task sleeps does not change the length of
\* that sleep; a sleep that begins lasts the interval set last, also when it
\* was set during the pass; and setting the interval touches nothing of the
\* task.
C16_IntervalTakesEffectNextSleep ==
    [][/\ (pc = "sleeping" /\ pc' = "sleeping") => sleepFor' = sleepFor
       /\ (pc # "sleeping" /\ pc' = "sleeping") => sleepFor' = CHECK_INTERVAL
       /\ \A u \in Users, s \in Intervals :
             (<<settings, CHECK_INTERVAL>>' # <<settings, CHECK_INTERVAL>>
                 /\ apply_interval(u, s)) =>
                CHECK_INTERVAL' = s /\ task' = task
      ]_vars

\* The interval was set to another value during the sleep in progress, which
\* keeps the length it began with.
C16_Witness ==
    /\ pc = "sleeping"
    /\ sleepFor = DefaultInterval
    /\ CHECK_INTERVAL # DefaultInterval
    /\ settings # <<>>

\* The task is inside a pass: in the for loop or suspended in send_message.
InPass == pc \in {"loop", "sending"}

\* C17: the list of a pass is exactly the rows of products at the moment the
\* pass starts, with the current_price each had then; the list does not
\* change during the pass, whatever is added or removed meanwhile; the
\* lookups follow the list; and the change test uses the price of the list.
C17_PassWorksFromSnapshot ==
    [][/\ (pc = "pass" /\ pc' = "loop") =>
             /\ {snapshot'[i] : i \in 1..Len(snapshot')} = products
             /\ Len(snapshot') = Cardinality(products)
       /\ (InPass /\ InPass') => snapshot' = snapshot
       /\ InPass' =>
             \A i \in 1..Len(looked') :
                 i <= Len(snapshot') /\ looked'[i].id = snapshot'[i].id
       /\ pc' = "sending" =>
             /\ cur'.old_price = snapshot'[idx'].current_price
             /\ cur'.user_id = snapshot'[idx'].user_id
      ]_vars

\* At the end of a pass over one product: that product was removed during
\* the pass and was still processed, and the product added during the pass
\* is not in the list.
C17_Witness ==
    /\ AtPassEnd /\ EachLookedUpOnce /\ Len(snapshot) = 1
    /\ ~Tracked(snapshot[1].id)
    /\ \E p \in products : p.id # snapshot[1].id
    /\ Len(notified) = 1

\* The check_interval of the user's settings row, 1800 when there is none.
IntervalOf(rows, user_id) ==
    IF SettingsOf(rows, user_id) = <<>> THEN DefaultInterval
    ELSE SettingsOf(rows, user_id)[1].check_interval

\* C18: the products of a user are re-checked at that user's own stored
\* interval: the sleep that follows a pass lasts, for every product of the
\* pass, the check_interval of its owner's settings row (the default without
\* a row), so that an interval set by one user does not change the cadence
\* of another user's products.
C18_CadenceIsPerUser ==
    [][(pc # "sleeping" /\ pc' = "sleeping") =>
          \A i \in 1..Len(snapshot) :
              sleepFor' = IntervalOf(settings, snapshot[i].user_id)
      ]_vars

\* C19: the lookup is classified in three ways: not found only for a
\* successful answer without a matching product; unavailable for an
\* exception and for a product entry that carries no price; found otherwise,
\* with the price being salePriceU / 100.
C19_LookupClassification ==
    [][\A r \in Responses :
          CheckProduct(r) =>
             LET o == looked'[Len(looked')]
             IN  IF r.kind = "empty" THEN o.outcome = "warning"
                 ELSE IF ~Priced(r) THEN o.outcome = "error"
                 ELSE /\ o.outcome \in {"changed", "same"}
                      /\ o.price = Div100[r.salePriceU]
      ]_vars

\* C20: for every tracked product, current_price is the price of its latest
\* history row; it has one history row when it is added and gains exactly
\* one, carrying the new price, with each change the task persists for it,
\* and none otherwise; the history rows of an id are never rewritten, and
\* they go away only together, with the removal of that id.
C20_HistoryMatchesPrice ==
    [][store' # store => \A id \in 1..MaxId :
          LET h == HistoryOf(price_history, id)
              h2 == HistoryOf(price_history', id)
              persisted == pc = "sending" /\ pc' = "loop" /\ cur.id = id
          IN  /\ Tracked(id)' =>
                    /\ h2 # <<>>
                    /\ \A q \in products' :
                          q.id = id => q.current_price = h2[Len(h2)].price
              /\ (~Tracked(id) /\ Tracked(id)') => Len(h2) = 1
              /\ (Tracked(id) /\ Tracked(id)') =>
                    IF persisted
                    THEN h2 = Append(h, [product_id |-> id, price |-> cur.new_price])
                    ELSE /\ h2 = h
                         /\ \A p \in products, q \in products' :
                               (p.id = id /\ q.id = id) => q = p
              /\ \/ h2 = h
                 \/ Len(h2) = Len(h) + 1 /\ SubSeq(h2, 1, Len(h)) = h
                 \/ h2 = <<>> /\ ~Tracked(id)'
      ]_vars

\* Two tracked products during the sleep: one has its first row only, the
\* other has had a change persisted and holds the price of its second row.
C20_Witness ==
    /\ pc = "sleeping" /\ Cardinality(products) = 2
    /\ \E p, q \in products :
          /\ Len(HistoryOf(price_history, q.id)) = 1
          /\ Len(HistoryOf(price_history, p.id)) = 2
          /\ HistoryOf(price_history, p.id)[2].price = p.current_price
          /\ HistoryOf(price_history, p.id)[1].price # p.current_price
====
